---- MODULE Spec2Model ----
(***************************************************************************)
(* A model of the BDI agent of bdi_agent_framework.py: the belief mapping, *)
(* the desires list, the intentions list, and the operations add_belief,   *)
(* add_desire, reason, execute_intentions and cycle of class BDIAgent.     *)
(*                                                                         *)
(* Encodings.  A JSON object field that may be absent is a set: {} when    *)
(* the field is absent, {v} when it is present with value v.  A dict is    *)
(* named by a string ("{}" is the empty dict).  Confidences are in tenths  *)
(* (1.0 is 10, 0.6 is 6).  Timestamps are integers.                        *)
(***************************************************************************)
EXTENDS Integers, Sequences, FiniteSets, TLC

VARIABLES beliefs, desires, intentions, now, substituted, lastOp, desireCalls

vars == <<beliefs, desires, intentions, now, substituted, lastOp, desireCalls>>

(***************************************************************************)
(* Program constants.                                                      *)
(***************************************************************************)
DEFAULT_CONFIDENCE == 10
DEFAULT_PRIORITY == 1

(***************************************************************************)
(* Bounds of the model.                                                    *)
(***************************************************************************)
\* The longest belief_updates sequence of a reply.
MaxUpdates == 2

\* The longest new_intentions sequence of a reply.
MaxNewIntentions == 2

\* The most add_desire calls of a behaviour.
MaxDesires == 2

\* The clock runs over 1..MaxNow.
MaxNow == 2

EmptyDict == "{}"
NoneContext == "None"

(***************************************************************************)
(* The dataclasses Belief, Desire and Intention.                           *)
(***************************************************************************)
Belief(key, value, confidence) ==
    [key |-> key, value |-> value, confidence |-> confidence]

Desire(goal, priority, context) ==
    [goal |-> goal, priority |-> priority, context |-> context]

Intention(action, parameters, deadline) ==
    [action |-> action, parameters |-> parameters, deadline |-> deadline]

(***************************************************************************)
(* Deadline values as json.loads produces them: null, a number, a string,  *)
(* or a value of another type (a list).                                    *)
(***************************************************************************)
NoneDeadline == [type |-> "none", num |-> 0, text |-> ""]
NumDeadline(n) == [type |-> "num", num |-> n, text |-> ""]
StrDeadline(t) == [type |-> "str", num |-> 0, text |-> t]
ListDeadline == [type |-> "list", num |-> 0, text |-> ""]

\* The numbers whose decimal rendering float() is asked to read back, and
\* the rendering of each.
FloatRange == 0 .. (MaxNow + 1)

Rendering == [n \in FloatRange |-> ToString(n)]

\* float(text): the number the text is the rendering of; ValueError otherwise.
FloatParses(text) == \E n \in FloatRange : Rendering[n] = text

Float(text) == CHOOSE n \in FloatRange : Rendering[n] = text

\* Python truth value of a deadline: None, 0 and "" are false.
Truthy(deadline) ==
    CASE deadline.type = "none" -> FALSE
      [] deadline.type = "num" -> deadline.num # 0
      [] deadline.type = "str" -> deadline.text # ""
      [] OTHER -> TRUE

(***************************************************************************)
(* The belief mapping is a function from the keys written so far to the    *)
(* Belief stored under each.                                               *)
(***************************************************************************)
EmptyBeliefs == [k \in {} |-> Belief("", "", 0)]

\* add_belief that leaves a key already written as it is.
add_belief_KeepsFirst(b, key, value, confidence) ==
    [k \in DOMAIN b \cup {key} |->
        IF k \in DOMAIN b THEN b[k] ELSE Belief(key, value, confidence)]

\* self.beliefs[key] = Belief(key, value, confidence)
add_belief(b, key, value, confidence) ==
    [k \in DOMAIN b \cup {key} |->
        IF k = key THEN Belief(key, value, confidence) ELSE b[k]]

\* add_desire that puts the new desire first.
add_desire_AtFront(d, goal, priority, context) ==
    <<Desire(goal, priority,
             IF context \in {NoneContext, EmptyDict}
             THEN EmptyDict ELSE context)>> \o d

\* self.desires.append(Desire(goal, priority, context or {}))
add_desire(d, goal, priority, context) ==
    Append(d, Desire(goal, priority,
                     IF context \in {NoneContext, EmptyDict}
                     THEN EmptyDict ELSE context))

\* _update_beliefs that skips a malformed entry and goes on.
RECURSIVE _update_beliefs_SkipsMalformed(_, _)
_update_beliefs_SkipsMalformed(b, belief_updates) ==
    IF belief_updates = <<>> THEN [beliefs |-> b, ok |-> TRUE]
    ELSE LET belief_update == Head(belief_updates) IN
         IF belief_update.key = {} \/ belief_update.value = {}
         THEN _update_beliefs_SkipsMalformed(b, Tail(belief_updates))
         ELSE _update_beliefs_SkipsMalformed(
                add_belief(b,
                    CHOOSE k \in belief_update.key : TRUE,
                    CHOOSE v \in belief_update.value : TRUE,
                    IF belief_update.confidence = {} THEN DEFAULT_CONFIDENCE
                    ELSE CHOOSE c \in belief_update.confidence : TRUE),
                Tail(belief_updates))

(***************************************************************************)
(* _update_beliefs: the loop over belief_updates.  An entry without "key"  *)
(* or without "value" raises KeyError at that entry; the entries before it *)
(* have been applied.  Result: the mapping and whether the loop completed. *)
(***************************************************************************)
RECURSIVE _update_beliefs(_, _)
_update_beliefs(b, belief_updates) ==
    IF belief_updates = <<>> THEN [beliefs |-> b, ok |-> TRUE]
    ELSE LET belief_update == Head(belief_updates) IN
         IF belief_update.key = {} \/ belief_update.value = {}
         THEN [beliefs |-> b, ok |-> FALSE]
         ELSE _update_beliefs(
                add_belief(b,
                    CHOOSE k \in belief_update.key : TRUE,
                    CHOOSE v \in belief_update.value : TRUE,
                    IF belief_update.confidence = {} THEN DEFAULT_CONFIDENCE
                    ELSE CHOOSE c \in belief_update.confidence : TRUE),
                Tail(belief_updates))

(***************************************************************************)
(* _create_intentions: one Intention per entry, in order; an entry without *)
(* "action" raises KeyError.                                               *)
(***************************************************************************)
\* The loop of _create_intentions from the entries left, with the list
\* built so far.
RECURSIVE CreateLoop(_, _)
CreateLoop(intention_data_list, created) ==
    IF intention_data_list = <<>> THEN [intentions |-> created, ok |-> TRUE]
    ELSE LET intention_data == Head(intention_data_list) IN
         IF intention_data.action = {}
         THEN [intentions |-> <<>>, ok |-> FALSE]
         ELSE CreateLoop(Tail(intention_data_list),
                Append(created,
                    Intention(
                        CHOOSE a \in intention_data.action : TRUE,
                        IF intention_data.parameters = {} THEN EmptyDict
                        ELSE CHOOSE p \in intention_data.parameters : TRUE,
                        IF intention_data.deadline = {} THEN NoneDeadline
                        ELSE CHOOSE d \in intention_data.deadline : TRUE)))

_create_intentions(intention_data_list) ==
    CreateLoop(intention_data_list, <<>>)

(***************************************************************************)
(* The reply of the reasoning service, as reason() sees it:                *)
(*   "raise"       the call llm.chat.completions.create raises             *)
(*   "unparseable" json.loads raises JSONDecodeError                       *)
(*   "nonobject"   json.loads returns a value without .get (a list)        *)
(*   "object"      json.loads returns a dict; belief_updates and           *)
(*                 new_intentions are {} when the dict lacks the field     *)
(***************************************************************************)
Reply(kind, belief_updates, new_intentions) ==
    [kind |-> kind, belief_updates |-> belief_updates,
     new_intentions |-> new_intentions]

\* result.get(field, [])
GetList(field) == IF field = {} THEN <<>> ELSE CHOOSE l \in field : TRUE

(***************************************************************************)
(* reason(), from the service call on.  The value returned is a reference: *)
(* "self.intentions" is the agent's own list object (return                *)
(* self.intentions), "fresh" is the new empty list of the except branches. *)
(***************************************************************************)
SelfIntentions == "self.intentions"
FreshList == "fresh"

\* reason() that extends the standing intentions instead of replacing them.
ReasonIntentions_Extends(updated, ints, created) ==
    IF ~updated.ok \/ ~created.ok
    THEN [beliefs |-> updated.beliefs, intentions |-> ints,
          ret |-> FreshList, failed |-> TRUE]
    ELSE [beliefs |-> updated.beliefs,
          intentions |-> ints \o created.intentions,
          ret |-> SelfIntentions, failed |-> FALSE]

\* The rest of the try block once _update_beliefs has returned or raised.
ReasonIntentions(updated, ints, created) ==
    IF ~updated.ok \/ ~created.ok
    THEN [beliefs |-> updated.beliefs, intentions |-> ints,
          ret |-> FreshList, failed |-> TRUE]
    ELSE [beliefs |-> updated.beliefs, intentions |-> created.intentions,
          ret |-> SelfIntentions, failed |-> FALSE]

\* reason() whose except branches reset the belief mapping.
reason_ResetsBeliefs(b, ints, reply) ==
    IF reply.kind # "object"
    THEN [beliefs |-> EmptyBeliefs, intentions |-> ints, ret |-> FreshList,
          failed |-> TRUE]
    ELSE ReasonIntentions(
            _update_beliefs(b, GetList(reply.belief_updates)), ints,
            _create_intentions(GetList(reply.new_intentions)))

reason(b, ints, reply) ==
    IF reply.kind # "object"
    THEN [beliefs |-> b, intentions |-> ints, ret |-> FreshList,
          failed |-> TRUE]
    ELSE ReasonIntentions(
            _update_beliefs(b, GetList(reply.belief_updates)), ints,
            _create_intentions(GetList(reply.new_intentions)))

\* The list a reference denotes when it is read.
Deref(ref, ints) == IF ref = SelfIntentions THEN ints ELSE <<>>

(***************************************************************************)
(* execute_intentions.                                                     *)
(***************************************************************************)
\* list.remove(x): the list without its first element equal to x.
Remove(list, x) ==
    LET i == CHOOSE j \in 1..Len(list) :
                 list[j] = x /\ \A h \in 1..(j - 1) : list[h] # x
    IN SubSeq(list, 1, i - 1) \o SubSeq(list, i + 1, Len(list))

\* The test of lines 214-223: the deadline is truthy, it coerces to a number
\* (float() of a string; a number as it is; ValueError and TypeError are
\* swallowed), and current_time > deadline.
Expired(deadline, current_time) ==
    /\ Truthy(deadline)
    /\ CASE deadline.type = "str" ->
                FloatParses(deadline.text) /\ current_time > Float(deadline.text)
         [] deadline.type = "num" -> current_time > deadline.num
         [] OTHER -> FALSE

ExpiredResult(action) ==
    [kind |-> "EXPIRED", action |-> action, result |-> <<>>]

ExecutedResult(action, result) ==
    [kind |-> "EXECUTED", action |-> action, result |-> result]

\* BDIAgent.execute_action, the default capability.
execute_action(action, parameters) ==
    <<"Action '", action, "' with params ", parameters, " completed">>

\* The result text of a substituted capability that returns.
SubstitutedResult == <<"done">>

(***************************************************************************)
(* The loop of execute_intentions over the snapshot self.intentions[:],    *)
(* from position i on.  live is self.intentions, results the list built so *)
(* far, invoked the actions execute_action was called with.  raiseAt is    *)
(* the position whose execute_action call raises (0: none does); the       *)
(* exception leaves the loop with self.intentions as it then is.           *)
(***************************************************************************)
RECURSIVE ExecuteLoop(_, _, _, _, _, _, _, _)
ExecuteLoop(snapshot, i, live, results, invoked, current_time, subst, raiseAt) ==
    IF i > Len(snapshot)
    THEN [intentions |-> live, results |-> results, invoked |-> invoked,
          raised |-> FALSE]
    ELSE LET intention == snapshot[i] IN
         IF Expired(intention.deadline, current_time)
         THEN ExecuteLoop(snapshot, i + 1, Remove(live, intention),
                          Append(results, ExpiredResult(intention.action)),
                          invoked, current_time, subst, raiseAt)
         ELSE IF i = raiseAt
         THEN [intentions |-> live, results |-> <<>>,
               invoked |-> Append(invoked, intention.action), raised |-> TRUE]
         ELSE ExecuteLoop(snapshot, i + 1, Remove(live, intention),
                          Append(results,
                              ExecutedResult(intention.action,
                                  IF subst THEN SubstitutedResult
                                  ELSE execute_action(intention.action,
                                                      intention.parameters))),
                          Append(invoked, intention.action),
                          current_time, subst, raiseAt)

\* execute_intentions that removes nothing from the list.
execute_intentions_KeepsList(ints, current_time, subst, raiseAt) ==
    [ExecuteLoop(ints, 1, ints, <<>>, <<>>, current_time, subst, raiseAt)
        EXCEPT !.intentions = ints]

execute_intentions(ints, current_time, subst, raiseAt) ==
    ExecuteLoop(ints, 1, ints, <<>>, <<>>, current_time, subst, raiseAt)

\* The positions at which the action capability may raise: none (0) for the
\* default capability, any position of the list for a substituted one.
RaisePoints(ints, subst) == IF subst THEN 0..Len(ints) ELSE {0}

(***************************************************************************)
(* get_context() renders the state with json.dumps before the service is   *)
(* called, outside the try block of reason(): it raises TypeError when the *)
(* state holds a value json.dumps cannot render.                           *)
(***************************************************************************)
Opaque == "<object>"

Serializable(b, d) ==
    /\ \A k \in DOMAIN b : b[k].value # Opaque
    /\ \A i \in 1..Len(d) : d[i].context # Opaque

(***************************************************************************)
(* The record of the last call: its arguments and what it gave back.       *)
(***************************************************************************)
NoReply == Reply("none", {}, {})

NoSummary ==
    [intentions_formed |-> 0 - 1, actions_executed |-> <<>>,
     current_beliefs |-> {}, active_desires |-> 0 - 1]

Op(op) ==
    [op |-> op, args |-> <<>>, reply |-> NoReply, called |-> FALSE,
     failed |-> FALSE, raised |-> FALSE, returned |-> <<>>,
     standing |-> <<>>, results |-> <<>>, invoked |-> <<>>,
     summary |-> NoSummary, time |-> 0]

(***************************************************************************)
(* The state after BDIAgent.__init__.  substituted tells whether the agent *)
(* is of a subclass that overrides execute_action.                         *)
(***************************************************************************)
Start(subst) ==
    /\ beliefs = EmptyBeliefs
    /\ desires = <<>>
    /\ intentions = <<>>
    /\ now = 1
    /\ substituted = subst
    /\ lastOp = Op("init")
    /\ desireCalls = <<>>

\* A BDIAgent, with the default execute_action.
Init == Start(FALSE)

\* An agent of a subclass that overrides execute_action.
InitSubstituted == Start(TRUE)

AddBelief(Ks, Vs, Cs) ==
    \E key \in Ks, value \in Vs, confidence \in Cs :
        /\ beliefs' = add_belief(beliefs, key, value, confidence)
        /\ lastOp' = [Op("add_belief") EXCEPT
                        !.args = <<key, value, confidence>>]
        /\ UNCHANGED <<desires, intentions, now, substituted, desireCalls>>

AddDesire(Gs, Ps, Cs) ==
    /\ Len(desires) < MaxDesires
    /\ \E goal \in Gs, priority \in Ps, context \in Cs :
        /\ desires' = add_desire(desires, goal, priority, context)
        /\ desireCalls' = Append(desireCalls, <<goal, priority, context>>)
        /\ lastOp' = [Op("add_desire") EXCEPT
                        !.args = <<goal, priority, context>>]
        /\ UNCHANGED <<beliefs, intentions, now, substituted>>

Reason(Replies) ==
    IF ~Serializable(beliefs, desires)
    THEN /\ lastOp' = [Op("reason") EXCEPT !.raised = TRUE]
         /\ UNCHANGED <<beliefs, desires, intentions, now, substituted,
                        desireCalls>>
    ELSE \E reply \in Replies :
        \E r \in {reason(beliefs, intentions, reply)} :
        /\ beliefs' = r.beliefs
        /\ intentions' = r.intentions
        /\ lastOp' = [Op("reason") EXCEPT
                        !.reply = reply, !.called = TRUE,
                        !.failed = r.failed,
                        !.returned = Deref(r.ret, r.intentions)]
        /\ UNCHANGED <<desires, now, substituted, desireCalls>>

ExecuteIntentions ==
    \E raiseAt \in RaisePoints(intentions, substituted) :
        \E e \in {execute_intentions(intentions, now, substituted, raiseAt)} :
        /\ intentions' = e.intentions
        /\ lastOp' = [Op("execute_intentions") EXCEPT
                        !.standing = intentions, !.raised = e.raised,
                        !.results = e.results, !.invoked = e.invoked,
                        !.time = now]
        /\ UNCHANGED <<beliefs, desires, now, substituted, desireCalls>>

\* cycle(): reason, then execute_intentions, then the summary, whose
\* len(intentions) reads the list reason returned after the executor ran.
Cycle(Replies) ==
    IF ~Serializable(beliefs, desires)
    THEN /\ lastOp' = [Op("cycle") EXCEPT !.raised = TRUE]
         /\ UNCHANGED <<beliefs, desires, intentions, now, substituted,
                        desireCalls>>
    ELSE \E reply \in Replies :
        \E r \in {reason(beliefs, intentions, reply)} :
        \E raiseAt \in RaisePoints(r.intentions, substituted) :
        \E e \in {execute_intentions(r.intentions, now, substituted, raiseAt)} :
            /\ beliefs' = r.beliefs
            /\ intentions' = e.intentions
            /\ lastOp' = [Op("cycle") EXCEPT
                    !.reply = reply, !.called = TRUE, !.failed = r.failed,
                    !.returned = Deref(r.ret, r.intentions),
                    !.standing = r.intentions, !.raised = e.raised,
                    !.results = e.results, !.invoked = e.invoked,
                    !.time = now,
                    !.summary =
                        IF e.raised THEN NoSummary
                        ELSE [intentions_formed |->
                                  Len(Deref(r.ret, e.intentions)),
                              actions_executed |-> e.results,
                              current_beliefs |-> DOMAIN r.beliefs,
                              active_desires |-> Len(desires)]]
            /\ UNCHANGED <<desires, now, substituted, desireCalls>>

\* time.time() moves on between calls.
Tick ==
    /\ now < MaxNow
    /\ now' = now + 1
    /\ lastOp' = Op("tick")
    /\ UNCHANGED <<beliefs, desires, intentions, substituted, desireCalls>>

(***************************************************************************)
(* Inputs.                                                                 *)
(***************************************************************************)
SeqsUpTo(S, n) == UNION {[1..k -> S] : k \in 0..n}

UpdateEntry(key, value, confidence) ==
    [key |-> key, value |-> value, confidence |-> confidence]

IntentionEntry(action, parameters, deadline) ==
    [action |-> action, parameters |-> parameters, deadline |-> deadline]

RaiseReply == Reply("raise", {}, {})
UnparseableReply == Reply("unparseable", {}, {})
NonObjectReply == Reply("nonobject", {}, {})

FailedReplies == {RaiseReply, UnparseableReply, NonObjectReply}

\* The replies that parse to a dict: belief_updates among UpdateLists or
\* absent, new_intentions among IntentionLists or absent.
ObjectReplies(UpdateLists, IntentionLists) ==
    {Reply("object", u, i) : u \in {{}} \cup {{l} : l \in UpdateLists},
                             i \in {{}} \cup {{l} : l \in IntentionLists}}

(***************************************************************************)
(* Spec: the default agent, with new_intentions in variety (no deadline,   *)
(* the number 0, a number and a numeric string the clock passes) and the   *)
(* beliefs in one shape.  No desire is added: reason, execute_intentions   *)
(* and cycle read the desires only to render the prompt and to count them. *)
(***************************************************************************)
IntentionEntries ==
    {IntentionEntry({"rest"}, {}, {}),
     IntentionEntry({"work"}, {"{'n': 1}"}, {NumDeadline(0)}),
     IntentionEntry({"work"}, {}, {NumDeadline(1)}),
     IntentionEntry({"rest"}, {}, {StrDeadline("1")})}

IntentionReplies ==
    {RaiseReply, UnparseableReply} \cup
    ObjectReplies({}, SeqsUpTo(IntentionEntries, MaxNewIntentions))

Next ==
    \/ AddBelief({"mood"}, {"calm"}, {DEFAULT_CONFIDENCE})
    \/ Reason(IntentionReplies)
    \/ ExecuteIntentions
    \/ Cycle(IntentionReplies)
    \/ Tick

Spec == Init /\ [][Next]_vars

(***************************************************************************)
(* SpecSubstituted: an agent whose execute_action is overridden and may    *)
(* raise at any call.                                                      *)
(***************************************************************************)
SubstitutedEntries ==
    {IntentionEntry({"rest"}, {}, {}),
     IntentionEntry({"work"}, {}, {NumDeadline(1)})}

SubstitutedReplies ==
    {UnparseableReply} \cup
    ObjectReplies({}, SeqsUpTo(SubstitutedEntries, MaxNewIntentions))

NextSubstituted ==
    \/ AddBelief({"mood"}, {"calm"}, {DEFAULT_CONFIDENCE})
    \/ AddDesire({"finish"}, {DEFAULT_PRIORITY}, {NoneContext})
    \/ Reason(SubstitutedReplies)
    \/ ExecuteIntentions
    \/ Cycle(SubstitutedReplies)
    \/ Tick

SpecSubstituted == InitSubstituted /\ [][NextSubstituted]_vars

(***************************************************************************)
(* SpecBeliefs: belief writes in variety, from add_belief calls and from   *)
(* belief_updates with well-formed and malformed entries.  The clock       *)
(* stands still: no deadline of these replies is a time.                   *)
(***************************************************************************)
MoodCalm == UpdateEntry({"mood"}, {"calm"}, {6})
MoodTense == UpdateEntry({"mood"}, {"tense"}, {})
MissingKey == UpdateEntry({}, {"calm"}, {6})
MissingValue == UpdateEntry({"energy"}, {}, {})

UpdateEntries == {MoodCalm, MoodTense, MissingKey, MissingValue}

NoAction == IntentionEntry({}, {"{'n': 1}"}, {})
RestSoon == IntentionEntry({"rest"}, {}, {StrDeadline("soon")})
RestList == IntentionEntry({"rest"}, {}, {ListDeadline})

BeliefReplies ==
    FailedReplies
    \cup ObjectReplies(SeqsUpTo(UpdateEntries, MaxUpdates), {})
    \cup ObjectReplies({<<MoodCalm>>}, {<<RestSoon>>, <<RestSoon, NoAction>>})

NextBeliefs ==
    \/ AddBelief({"mood", "energy"}, {"calm", Opaque}, {DEFAULT_CONFIDENCE})
    \/ AddDesire({"finish"}, {DEFAULT_PRIORITY}, {NoneContext})
    \/ Reason(BeliefReplies)
    \/ ExecuteIntentions
    \/ Cycle(BeliefReplies)

SpecBeliefs == Init /\ [][NextBeliefs]_vars

(***************************************************************************)
(* SpecDesires: add_desire calls in variety.                               *)
(***************************************************************************)
DesireReplies ==
    {RaiseReply, UnparseableReply,
     Reply("object", {<<MoodCalm>>}, {<<RestList>>}),
     Reply("object", {<<MissingKey>>}, {})}

NextDesires ==
    \/ AddBelief({"mood"}, {"calm"}, {DEFAULT_CONFIDENCE})
    \/ AddDesire({"finish", "rest"}, {DEFAULT_PRIORITY, 2},
                 {NoneContext, EmptyDict, "{'by': 'noon'}"})
    \/ Reason(DesireReplies)
    \/ ExecuteIntentions
    \/ Cycle(DesireReplies)
    \/ Tick

SpecDesires == Init /\ [][NextDesires]_vars

(***************************************************************************)
(* What the properties below speak of.                                     *)
(***************************************************************************)
WellFormedUpdate(u) == u.key # {} /\ u.value # {}

\* The position of the first malformed entry; Len + 1 when there is none.
FirstMalformed(updates) ==
    CHOOSE i \in 1..(Len(updates) + 1) :
        /\ i <= Len(updates) => ~WellFormedUpdate(updates[i])
        /\ \A h \in 1..(i - 1) : WellFormedUpdate(updates[h])

\* The write an entry asks for.
WriteOf(u) ==
    [key |-> CHOOSE k \in u.key : TRUE,
     value |-> CHOOSE v \in u.value : TRUE,
     confidence |-> IF u.confidence = {} THEN DEFAULT_CONFIDENCE
                    ELSE CHOOSE c \in u.confidence : TRUE]

\* The writes of the entries before the first malformed one.
WritesBeforeFailure(updates) ==
    [i \in 1..(FirstMalformed(updates) - 1) |-> WriteOf(updates[i])]

\* The belief writes of the call op records.
WritesOf(op) ==
    IF op.op = "add_belief"
    THEN <<[key |-> op.args[1], value |-> op.args[2],
            confidence |-> op.args[3]]>>
    ELSE IF op.op \in {"reason", "cycle"} /\ op.reply.kind = "object"
    THEN WritesBeforeFailure(GetList(op.reply.belief_updates))
    ELSE <<>>

\* The mapping b after the writes W: each key written holds its last write,
\* every other key what it held, and no key is gone.
AfterWrites(b, W) ==
    LET written == {W[i].key : i \in 1..Len(W)}
        last(k) == CHOOSE i \in 1..Len(W) :
                       W[i].key = k /\ \A j \in (i + 1)..Len(W) : W[j].key # k
    IN [k \in DOMAIN b \cup written |->
            IF k \in written
            THEN Belief(k, W[last(k)].value, W[last(k)].confidence)
            ELSE b[k]]

WellFormedIntentions(entries) ==
    \A i \in 1..Len(entries) : entries[i].action # {}

\* The reply parses to a dict whose entries are all well formed.
WellFormedReply(reply) ==
    /\ reply.kind = "object"
    /\ FirstMalformed(GetList(reply.belief_updates))
           > Len(GetList(reply.belief_updates))
    /\ WellFormedIntentions(GetList(reply.new_intentions))

\* One Intention per entry, in order, parameters {} and deadline None when
\* the entry has none.
IntentionsOf(entries) ==
    [i \in 1..Len(entries) |->
        Intention(CHOOSE a \in entries[i].action : TRUE,
                  IF entries[i].parameters = {} THEN EmptyDict
                  ELSE CHOOSE q \in entries[i].parameters : TRUE,
                  IF entries[i].deadline = {} THEN NoneDeadline
                  ELSE CHOOSE d \in entries[i].deadline : TRUE)]

\* The deadline is a number, or the text of a number, below the time t.
PastDeadline(deadline, t) ==
    \/ deadline.type = "num" /\ deadline.num < t
    \/ deadline.type = "str" /\ \E n \in FloatRange :
            Rendering[n] = deadline.text /\ n < t

\* The reasoning step of the recorded call failed on the service call or on
\* the parse of the reply.
Degraded(op) ==
    op.called /\ op.reply.kind \in {"raise", "unparseable", "nonobject"}

(***************************************************************************)
(* C1.  A cycle whose reply parses with n well-formed new_intentions and   *)
(* whose action capability does not raise reports intentions_formed = n.   *)
(***************************************************************************)
C1_IntentionsFormedIsCount ==
    (/\ lastOp.op = "cycle"
     /\ lastOp.called
     /\ WellFormedReply(lastOp.reply)
     /\ ~lastOp.raised)
    => lastOp.summary.intentions_formed
           = Len(GetList(lastOp.reply.new_intentions))

(***************************************************************************)
(* C2.  A cycle whose reasoning step fails (the service call raises or the *)
(* reply does not parse) reports intentions_formed = 0 and no executed     *)
(* action: nothing is executed and nothing expired in that turn, whatever  *)
(* intentions were standing.                                               *)
(***************************************************************************)
C2_DegradedCycleDoesNothing ==
    (lastOp.op = "cycle" /\ Degraded(lastOp))
    => /\ ~lastOp.raised
       /\ lastOp.summary.intentions_formed = 0
       /\ lastOp.summary.actions_executed = <<>>
       /\ lastOp.results = <<>>
       /\ lastOp.invoked = <<>>

(***************************************************************************)
(* C3.  When the service call raises or the reply does not parse to an     *)
(* object, reason() does not raise, returns an empty list, and leaves the  *)
(* belief mapping and the desires list as they were.                       *)
(***************************************************************************)
C3_FailedReasonKeepsState ==
    [][(lastOp'.op = "reason" /\ Degraded(lastOp'))
       => /\ ~lastOp'.raised
          /\ lastOp'.returned = <<>>
          /\ beliefs' = beliefs
          /\ desires' = desires]_vars

C3_Witness ==
    /\ lastOp.op = "reason"
    /\ lastOp.called
    /\ lastOp.reply.kind = "unparseable"
    /\ DOMAIN beliefs = {"mood", "energy"}
    /\ desires # <<>>

(***************************************************************************)
(* C4.  Every step leaves the belief mapping holding, for each key the     *)
(* step wrote (by add_belief or by the belief_updates reason applied), one *)
(* Belief with the value and confidence of the step's last write to that   *)
(* key, and for every other key the Belief it held: no belief is deleted.  *)
(***************************************************************************)
C4_LastWriteWins ==
    [][\A W \in {WritesOf(lastOp')} : beliefs' = AfterWrites(beliefs, W)]_vars

C4_Witness ==
    /\ lastOp.op = "reason"
    /\ lastOp.reply.belief_updates = {<<MoodCalm, MoodTense>>}
    /\ DOMAIN beliefs = {"mood", "energy"}
    /\ beliefs["mood"] = Belief("mood", "tense", DEFAULT_CONFIDENCE)

(***************************************************************************)
(* C5.  execute_intentions on a list holding one intention whose deadline  *)
(* is a number or a numeric string below the current time (0 included)     *)
(* returns exactly the EXPIRED result of its action, does not call the     *)
(* action capability, and leaves the list empty.                           *)
(***************************************************************************)
C5_PastDeadlineExpires ==
    (/\ lastOp.op = "execute_intentions"
     /\ Len(lastOp.standing) = 1
     /\ PastDeadline(lastOp.standing[1].deadline, lastOp.time))
    => /\ ~lastOp.raised
       /\ lastOp.results = <<ExpiredResult(lastOp.standing[1].action)>>
       /\ lastOp.invoked = <<>>
       /\ intentions = <<>>

(***************************************************************************)
(* C6.  After an execute_intentions pass, alone or within a cycle, and     *)
(* whatever its outcome (the action capability raising included), no       *)
(* intention standing at the start of the pass is still in the list.       *)
(***************************************************************************)
C6_NoIntentionSurvivesPass ==
    (\/ lastOp.op = "execute_intentions"
     \/ lastOp.op = "cycle" /\ lastOp.called)
    => \A i \in 1..Len(lastOp.standing) : \A j \in 1..Len(intentions) :
           intentions[j] # lastOp.standing[i]

(***************************************************************************)
(* C7.  With the default action capability, execute_intentions returns one *)
(* result per intention standing at the call, in list order, each EXPIRED  *)
(* or EXECUTED for that intention's action, and leaves the list empty; a   *)
(* call that follows another directly returns no result and changes        *)
(* nothing.                                                                *)
(***************************************************************************)
C7_OneResultPerIntention ==
    [][lastOp'.op = "execute_intentions"
       => /\ ~lastOp'.raised
          /\ Len(lastOp'.results) = Len(intentions)
          /\ \A i \in 1..Len(intentions) :
                /\ lastOp'.results[i].action = intentions[i].action
                /\ lastOp'.results[i].kind \in {"EXPIRED", "EXECUTED"}
          /\ intentions' = <<>>
          /\ lastOp.op = "execute_intentions"
                => /\ lastOp'.results = <<>>
                   /\ intentions' = intentions
                   /\ beliefs' = beliefs
                   /\ desires' = desires]_vars

C7_Witness ==
    /\ lastOp.op = "execute_intentions"
    /\ Len(lastOp.standing) = 2
    /\ lastOp.standing[1] = lastOp.standing[2]
    /\ lastOp.results[1].kind = "EXPIRED"
    /\ lastOp.results[2].kind = "EXPIRED"
    /\ intentions = <<>>

(***************************************************************************)
(* C8.  The desires list is the list of the add_desire calls made so far:  *)
(* as many entries as calls, the i-th with the goal, the priority and the  *)
(* context of the i-th call (no context being the empty context), whatever *)
(* other operations ran in between.                                        *)
(***************************************************************************)
C8_DesiresAppendOnly ==
    /\ Len(desires) = Len(desireCalls)
    /\ \A i \in 1..Len(desireCalls) :
          desires[i] = Desire(desireCalls[i][1], desireCalls[i][2],
                              IF desireCalls[i][3] = NoneContext
                              THEN EmptyDict ELSE desireCalls[i][3])

C8_Witness ==
    /\ Len(desires) = 2
    /\ desires[1].goal # desires[2].goal
    /\ desires[1].priority # desires[2].priority
    /\ desires[2].context # EmptyDict
    /\ lastOp.op = "cycle"
    /\ lastOp.failed

(***************************************************************************)
(* C9.  When belief_updates has a first malformed entry at position i,     *)
(* reason() applies the updates before i and none from i on, does not      *)
(* replace the intentions list, does not raise, and returns an empty list. *)
(***************************************************************************)
C9_FailFastPerUpdate ==
    [][(/\ lastOp'.op = "reason"
        /\ lastOp'.called
        /\ lastOp'.reply.kind = "object"
        /\ FirstMalformed(GetList(lastOp'.reply.belief_updates))
               <= Len(GetList(lastOp'.reply.belief_updates)))
       => /\ \A W \in {WritesBeforeFailure(
                            GetList(lastOp'.reply.belief_updates))} :
                 beliefs' = AfterWrites(beliefs, W)
          /\ intentions' = intentions
          /\ ~lastOp'.raised
          /\ lastOp'.returned = <<>>]_vars

C9_Witness ==
    /\ lastOp.op = "reason"
    /\ lastOp.reply.belief_updates = {<<MoodCalm, MissingValue>>}
    /\ "mood" \in DOMAIN beliefs
    /\ beliefs["mood"] = Belief("mood", "calm", 6)
    /\ "energy" \notin DOMAIN beliefs
    /\ intentions # <<>>

(***************************************************************************)
(* C10.  After a successful reason() the intentions list is the sequence   *)
(* built from the reply's new_intentions, one Intention per entry in       *)
(* order, parameters {} and deadline None by default, and reason returns   *)
(* that list; without a new_intentions field the list is empty.            *)
(***************************************************************************)
C10_IntentionsReplaced ==
    (/\ lastOp.op = "reason"
     /\ lastOp.called
     /\ WellFormedReply(lastOp.reply))
    => /\ intentions = IntentionsOf(GetList(lastOp.reply.new_intentions))
       /\ lastOp.returned = intentions
       /\ ~lastOp.raised
       /\ lastOp.reply.new_intentions = {} => intentions = <<>>

C10_Witness ==
    /\ lastOp.op = "reason"
    /\ Len(GetList(lastOp.reply.new_intentions)) = 2
    /\ Len(intentions) = 2
    /\ intentions[1] = Intention("rest", EmptyDict, NoneDeadline)
    /\ intentions[2].deadline = NumDeadline(0)
    /\ intentions[2].parameters # EmptyDict

====
